---- MODULE Spec2Model ----
(***************************************************************************)
(* Model of the Chinese-to-Indonesian dubbing pipeline.                    *)
(*                                                                         *)
(*   main.py           run_pipeline: the six-stage orchestrator            *)
(*   translator.py     translate_segments / translate_text                 *)
(*   tts_generator.py  generate_speech_from_segments / generate_speech     *)
(*   validator.py      validate_output, measure_audio_sync                 *)
(*                                                                         *)
(* Conventions.  Python's None is the string "None"; a local that has not  *)
(* been assigned yet is "unset".  A list that is None or not yet assigned  *)
(* is the empty sequence (the code only ever tests such lists with `not`). *)
(* Segment boundaries are whole seconds, audio lengths are milliseconds.   *)
(* Python's segment index i (0-based) is i+1 here.  pydub's AudioSegment   *)
(* is a sequence of pieces, each silence or a clip, with a length in ms;   *)
(* its `+` is concatenation (crossfade 0).  The external tools (ffmpeg,    *)
(* whisper, the translation model, gTTS) return or fail                    *)
(* nondeterministically; the orchestrator's own two JSON writes succeed.   *)
(* All runs of the pipeline share one output_dir and one video name.       *)
(* A stage artifact is rewritten by every run that reaches its stage, so   *)
(* the disk state kept between runs is the directories, the two run        *)
(* records, the validator's temporary file and the per-segment clips.      *)
(***************************************************************************)
EXTENDS Integers, Sequences, FiniteSets, TLC

\* ---------------------------------------------------------------- bounds
MaxRuns == 2
MaxSegs == 2
MaxClip == 2
AsmMaxSegs == 3
AsmMaxTime == 2
SyncMaxSegs == 2
SyncMaxTime == 2

\* --------------------------------------------------------------- values
None == "None"
Unset == "unset"

VARIABLES
    runs,                \* number of run_pipeline invocations started
    pc,                  \* position of run_pipeline
    video_exists,        \* os.path.exists(video_path) of the current run
    audio_method,        \* the audio_method argument of the current run
    video_method,        \* the video_method argument of the current run
    output_paths,        \* keys of the output_paths dict
    calls,               \* adapters invoked by the current run, in order
    audio_path, transcript_path, segments,
    translation_path, translated_segments,
    speech_path, output_video_path, validation_path,
    ret,                 \* what run_pipeline returned
    tr_pc, tr_i, tr_out, tr_ret,                 \* translate_segments
    tts_pc, tts_in, tts_i, combined_audio, segment_files, tts_ret,
                                                 \* generate_speech_from_segments
    metadata,            \* the metadata dict of main.py:132, once dumped
    error_log,           \* the error_log dict of main.py:163, once dumped
    fs,                  \* directories and files that outlive a run
    touched,             \* what the current run created or wrote
    clips,               \* speech/segments/segment_NNNN.mp3 on disk
    sync_pc, original_segments, dubbed_segments, sync_i, timing_diffs,
    sync_ret                                     \* measure_audio_sync

mainVars == <<runs, pc, video_exists, audio_method, video_method,
              output_paths, audio_path, transcript_path,
              segments, translation_path, translated_segments, speech_path,
              output_video_path, validation_path, ret, metadata, error_log>>
trVars   == <<tr_pc, tr_i, tr_out, tr_ret>>
ttsVars  == <<tts_pc, tts_in, tts_i, combined_audio, segment_files, tts_ret>>
diskVars == <<fs, touched, clips>>
syncVars == <<sync_pc, original_segments, dubbed_segments, sync_i,
              timing_diffs, sync_ret>>
vars     == <<mainVars, trVars, ttsVars, diskVars, calls, syncVars>>

\* ------------------------------------------------------- data structures
Max(a, b) == IF a > b THEN a ELSE b

SegSlots == Max(MaxSegs, AsmMaxSegs)

\* transcriber.py:57-61  a segment {start, end, text}, start <= end
SourceSegments(T, texts) ==
    {x \in [start : 0..T, end : 0..T, text : texts] : x.start <= x.end}

\* the lists of at most n segments whisper can emit: in non-decreasing start
\* order
RECURSIVE SegLists(_, _)
SegLists(S, n) ==
    IF n = 0 THEN {<<>>}
    ELSE LET shorter == SegLists(S, n - 1)
         IN  shorter \cup
             UNION {{Append(l, x) :
                        x \in {y \in S : l = <<>> \/ l[Len(l)].start <= y.start}} :
                    l \in {m \in shorter : Len(m) = n - 1}}

\* what whisper yields for the video of a pipeline run: n back-to-back
\* segments of one second
VideoSegments(n) ==
    [i \in 1..n |-> [start |-> i - 1, end |-> i,
                     text |-> IF i % 2 = 1 THEN "zh_a" ELSE "zh_b"]]

PipeSegLists == {VideoSegments(n) : n \in 0..MaxSegs}

\* the translation model, as a function of the text
TranslateText(text) == IF text = "zh_a" THEN "id_a" ELSE "id_b"

\* translator.py:81-87
TranslatedSegmentEndFromStart(segment, indonesian_text) ==
    [start |-> segment.start, end |-> segment.start,
     original |-> segment.text, translated |-> indonesian_text]
TranslatedSegment(segment, indonesian_text) ==
    [start |-> segment.start, end |-> segment.end,
     original |-> segment.text, translated |-> indonesian_text]

\* a translation file as generate_speech_from_file reads it
AsmSegLists ==
    {[i \in 1..Len(l) |-> TranslatedSegment(l[i], TranslateText(l[i].text))] :
        l \in SegLists(SourceSegments(AsmMaxTime, {"zh_a"}), AsmMaxSegs) \ {<<>>}}

ClipDurs == {k * 1000 : k \in 1..MaxClip}

\* a segment file: a decodable clip of some length, or none (missing, or
\* truncated by a save that failed)
NoFile == [kind |-> "none", dur |-> 0]
ClipFile(d) == [kind |-> "clip", dur |-> d]

\* pydub: AudioSegment.silent(duration=d)
SilentSeconds(d) ==
    <<[kind |-> "silence", seg |-> 0, fresh |-> FALSE, dur |-> d \div 1000]>>
Silent(d) == <<[kind |-> "silence", seg |-> 0, fresh |-> FALSE, dur |-> d]>>

\* pydub: AudioSegment.from_file(segment_path), segment i; fresh tells
\* whether the file was written by the generate_speech call just before
FromFile(file, i, fresh) ==
    <<[kind |-> "clip", seg |-> i, fresh |-> fresh, dur |-> file.dur]>>

\* pydub: a + b; audio of length zero holds no data
ConcatCrossfade(a, b) ==
    LET nb == SelectSeq(b, LAMBDA p : p.dur > 0)
    IN  IF a = <<>> \/ nb = <<>> THEN a \o nb
        ELSE [a EXCEPT ![Len(a)].dur = @ - 100] \o nb
Concat(a, b) == a \o SelectSeq(b, LAMBDA p : p.dur > 0)

RECURSIVE TrackLen(_)
TrackLen(t) == IF t = <<>> THEN 0 ELSE Head(t).dur + TrackLen(Tail(t))

Call(op, i) == [op |-> op, seg |-> i]

StageDirs == {"dir:base", "dir:audio", "dir:transcript", "dir:translation",
              "dir:speech", "dir:output", "dir:validation"}

MetadataFile == "pipeline_metadata.json"
ErrorLogFile == "error_log.json"
TempAudio == "temp_dubbed_audio.wav"

NoRecord == [exists |-> FALSE, error |-> "", stage |-> "", keys |-> {}]

NoManifest == [exists |-> FALSE, keys |-> {}]

\* ------------------------------------------------------------ run_pipeline
TerminalPcs == {"done", "failed", "rejected"}

\* the backend names the runs are given, after method.lower(): a name the
\* adapters know and any other string.  Of the two known names "ffmpeg" is
\* the one enumerated: what a run can do with "moviepy" it can also do with
\* "ffmpeg", whose backend in addition lets exceptions through
Methods == {"ffmpeg", "other"}

\* audio_extractor.py:13-59, 89-95  what extract_audio can do with a method:
\* the ffmpeg backend catches ffmpeg.Error only, the moviepy backend catches
\* every exception, an unknown name returns None without running a tool
ExtractOutcomes(method) ==
    CASE method = "ffmpeg" -> {"path", "none", "raise"}
      [] method = "moviepy" -> {"path", "none"}
      [] OTHER -> {"none"}

\* video_aligner.py:13-102, 139-147  the same for align_audio_with_video
AlignOutcomesDefaulting(method) ==
    CASE method = "moviepy" -> {"path", "none"}
      [] OTHER -> {"path", "none", "raise"}
AlignOutcomes(method) ==
    CASE method = "ffmpeg" -> {"path", "none", "raise"}
      [] method = "moviepy" -> {"path", "none"}
      [] OTHER -> {"none"}

\* main.py:64  if not os.path.exists(video_path)
InputRejectedNever(exists) == FALSE
InputRejected(exists) == ~exists

\* main.py:89, 96, 103, 110, 121  the checks of the stage results
Step1Failed(ap) == ap = None
Step2FailedPathOnly(tp, segs) == tp = None
Step2Failed(tp, segs) == tp = None \/ segs = <<>>
Step3FailedNever(tp, segs) == FALSE
Step3Failed(tp, segs) == tp = None \/ segs = <<>>
Step4Failed(sp) == sp = None
Step5FailedNever(vp) == FALSE
Step5Failed(vp) == vp = None

\* main.py:128  if validation_path
ValidationRecordedAlways(vp) == TRUE
ValidationRecorded(vp) == vp # None

\* main.py:91, 98, 105, 112-113, 123  the keys a completed stage records
StageKeysForgetful(k) ==
    CASE k = 1 -> {"extracted_audio"}
      [] k = 2 -> {}
      [] k = 3 -> {"translation"}
      [] k = 4 -> {"indonesian_speech", "speech_segments"}
      [] k = 5 -> {"output_video"}
StageKeys(k) ==
    CASE k = 1 -> {"extracted_audio"}
      [] k = 2 -> {"transcript"}
      [] k = 3 -> {"translation"}
      [] k = 4 -> {"indonesian_speech", "speech_segments"}
      [] k = 5 -> {"output_video"}

\* main.py:159-175  the except block; t is what the run has written so far
HandleExceptionRetry(msg, t) ==
    /\ error_log' = [exists |-> TRUE, error |-> msg, stage |-> "unknown",
                     keys |-> output_paths]
    /\ touched' = t \cup {ErrorLogFile}
    /\ fs' = fs \cup {ErrorLogFile}
    /\ ret' = None
    /\ pc' = "step1"
    /\ UNCHANGED output_paths
HandleException(msg, t) ==
    /\ error_log' = [exists |-> TRUE, error |-> msg, stage |-> "unknown",
                     keys |-> output_paths]
    /\ touched' = t \cup {ErrorLogFile}
    /\ fs' = fs \cup {ErrorLogFile}
    /\ ret' = None
    /\ pc' = "failed"
    /\ UNCHANGED output_paths

\* the stage's result passed its check: record its keys and go on
Proceed(k, next, t) ==
    /\ output_paths' = output_paths \cup StageKeys(k)
    /\ touched' = t
    /\ pc' = next
    /\ UNCHANGED <<ret, error_log, fs>>

\* main.py:43-83  entry, input check, create_output_dirs, output_paths
RunPipeline ==
    /\ pc \in {"idle"} \cup TerminalPcs
    /\ runs < MaxRuns
    /\ runs' = runs + 1
    /\ \E am \in Methods, vm \in Methods :
         audio_method' = am /\ video_method' = vm
    /\ \E exists \in BOOLEAN :
         /\ video_exists' = exists
         /\ IF InputRejected(exists)
            THEN /\ pc' = "rejected"
                 /\ ret' = None
                 /\ output_paths' = {}
                 /\ touched' = {}
                 /\ fs' = fs
            ELSE /\ pc' = "step1"
                 /\ ret' = Unset
                 /\ output_paths' = {"input_video", "output_dir"}
                 /\ touched' = StageDirs \ fs
                 /\ fs' = fs \cup StageDirs
    /\ calls' = <<>>
    /\ audio_path' = Unset /\ transcript_path' = Unset /\ segments' = <<>>
    /\ translation_path' = Unset /\ translated_segments' = <<>>
    /\ speech_path' = Unset /\ output_video_path' = Unset
    /\ validation_path' = Unset
    /\ tr_pc' = "idle" /\ tr_i' = 0 /\ tr_out' = <<>> /\ tr_ret' = Unset
    /\ tts_pc' = "idle" /\ tts_in' = <<>> /\ tts_i' = 0 /\ combined_audio' = <<>>
    /\ segment_files' = <<>> /\ tts_ret' = Unset
    /\ metadata' = NoManifest /\ error_log' = NoRecord
    /\ UNCHANGED clips
    /\ UNCHANGED syncVars

\* main.py:86-91 with audio_extractor.py:15-95  extract_audio returns the
\* path or None; the ffmpeg backend catches ffmpeg.Error only, so any other
\* exception of the tool reaches run_pipeline's except block
Step1 ==
    /\ pc = "step1"
    /\ calls' = Append(calls, Call("extract_audio", 0))
    /\ \E o \in ExtractOutcomes(audio_method) :
         /\ audio_path' = CASE o = "path" -> "audio.wav"
                            [] o = "none" -> None
                            [] o = "raise" -> audio_path
         /\ LET t == IF o = "path" THEN touched \cup {"audio"} ELSE touched
            IN  IF o = "raise"
                THEN HandleException("extract_audio raised", t)
                ELSE IF Step1Failed(audio_path')
                     THEN HandleException("Audio extraction failed", t)
                     ELSE Proceed(1, "step2", t)
    /\ UNCHANGED <<runs, video_exists, audio_method, video_method,
                   transcript_path, segments,
                   translation_path, translated_segments, speech_path,
                   output_video_path, validation_path, metadata,
                   trVars, ttsVars, clips>>
    /\ UNCHANGED syncVars

\* main.py:94-98 with transcriber.py:13-76  transcribe_audio; the transcript
\* file is written also when whisper yields no segment
Step2 ==
    /\ pc = "step2"
    /\ calls' = Append(calls, Call("transcribe_audio", 0))
    /\ \E ok \in BOOLEAN, segs \in PipeSegLists :
         /\ ~ok => segs = <<>>
         /\ transcript_path' = IF ok THEN "transcript.txt" ELSE None
         /\ segments' = segs
         /\ LET t == IF ok THEN touched \cup {"transcript"} ELSE touched
            IN  IF Step2Failed(transcript_path', segments')
                THEN HandleException("Transcription failed", t)
                ELSE Proceed(2, "step3", t)
    /\ UNCHANGED <<runs, video_exists, audio_method, video_method,
                   audio_path,
                   translation_path, translated_segments, speech_path,
                   output_video_path, validation_path, metadata,
                   trVars, ttsVars, clips>>
    /\ UNCHANGED syncVars

\* ------------------------------------------------------ translate_segments
\* main.py:102 with translator.py:42-72  the call, up to the loop
Step3Call ==
    /\ pc = "step3" /\ tr_pc = "idle"
    /\ calls' = Append(calls, Call("translate_segments", 0))
    /\ tr_pc' = "loop" /\ tr_i' = 1 /\ tr_out' = <<>>
    /\ UNCHANGED <<mainVars, tr_ret, ttsVars, diskVars>>
    /\ UNCHANGED syncVars

\* translator.py:74  for i, segment in enumerate(segments)
NextIndexSkipping(i) == i + 2
NextIndex(i) == i + 1

\* translator.py:74-88 with 14-40  one iteration: translate_text returns the
\* text or, on any exception, None; the segment is appended either way
TranslateSegment ==
    /\ tr_pc = "loop" /\ tr_i <= Len(segments)
    /\ calls' = Append(calls, Call("translate_text", tr_i))
    /\ \E ok \in BOOLEAN :
         LET chinese_text == segments[tr_i].text
             indonesian_text == IF ok THEN TranslateText(chinese_text) ELSE None
         IN  tr_out' = Append(tr_out, TranslatedSegment(segments[tr_i],
                                                        indonesian_text))
    /\ tr_i' = NextIndex(tr_i)
    /\ UNCHANGED <<mainVars, tr_pc, tr_ret, ttsVars, diskVars>>
    /\ UNCHANGED syncVars

\* translator.py:90-99  save the list and return it, or (None, None) when
\* the write raises
TranslateSave ==
    /\ tr_pc = "loop" /\ tr_i > Len(segments)
    /\ \E ok \in BOOLEAN :
         /\ tr_ret' = IF ok THEN "translated.json" ELSE None
         /\ tr_out' = IF ok THEN tr_out ELSE <<>>
         /\ touched' = IF ok THEN touched \cup {"translation"} ELSE touched
    /\ tr_pc' = "returned"
    /\ UNCHANGED <<mainVars, tr_i, ttsVars, fs, clips, calls>>
    /\ UNCHANGED syncVars

\* main.py:102-105  the result of translate_segments and its check
Step3Return ==
    /\ pc = "step3" /\ tr_pc = "returned"
    /\ translation_path' = tr_ret
    /\ translated_segments' = tr_out
    /\ IF Step3Failed(translation_path', translated_segments')
       THEN HandleException("Translation failed", touched)
       ELSE Proceed(3, "step4", touched)
    /\ tr_pc' = "done"
    /\ UNCHANGED <<runs, video_exists, audio_method, video_method,
                   audio_path, transcript_path, segments,
                   speech_path, output_video_path, validation_path, metadata,
                   tr_i, tr_out, tr_ret, ttsVars, clips, calls>>
    /\ UNCHANGED syncVars

\* ------------------------------------------- generate_speech_from_segments
\* main.py:109 with tts_generator.py:50-72  the call, up to the loop
Step4Call ==
    /\ pc = "step4" /\ tts_pc = "idle"
    /\ calls' = Append(calls, Call("generate_speech_from_segments", 0))
    /\ tts_pc' = "loop" /\ tts_in' = translated_segments /\ tts_i' = 1
    /\ combined_audio' = <<>> /\ segment_files' = <<>>
    /\ fs' = fs \cup {"dir:segments"}
    /\ touched' = touched \cup ({"dir:segments"} \ fs)
    /\ UNCHANGED <<mainVars, trVars, tts_ret, clips>>
    /\ UNCHANGED syncVars

\* tts_generator.py:15-36  generate_speech: what it returns and what it
\* leaves at output_path.  gTTS refuses a text of None before it opens the
\* file; any other failure leaves the file as it was or truncated.
GenerateSpeech(text, old) ==
    IF text = None
    THEN {[ret |-> None, file |-> old]}
    ELSE {[ret |-> "segment.mp3", file |-> ClipFile(d)] : d \in ClipDurs}
         \cup {[ret |-> None, file |-> old], [ret |-> None, file |-> NoFile]}

\* tts_generator.py:95-103  the silence put before segment i, in ms
SilenceNoGap(segs, i) ==
    IF i > 1
    THEN 0
    ELSE IF segs[i].start * 1000 > 0 THEN segs[i].start * 1000 ELSE 0
SilenceFromPreviousStart(segs, i) ==
    IF i > 1
    THEN Max(0, segs[i].start * 1000 - segs[i - 1].start * 1000)
    ELSE IF segs[i].start * 1000 > 0 THEN segs[i].start * 1000 ELSE 0
SilenceBefore(segs, i) ==
    IF i > 1
    THEN Max(0, segs[i].start * 1000 - segs[i - 1].end * 1000)
    ELSE IF segs[i].start * 1000 > 0 THEN segs[i].start * 1000 ELSE 0

\* tts_generator.py:75-106, 114-116  one iteration: the result of
\* generate_speech is not looked at; from_file raises when the file is
\* missing or not decodable, and the function then returns (None, None)
SpeechSegment ==
    /\ tts_pc = "loop" /\ tts_i <= Len(tts_in)
    /\ calls' = Append(calls, Call("generate_speech", tts_i))
    /\ \E o \in GenerateSpeech(tts_in[tts_i].translated, clips[tts_i]) :
         /\ clips' = [clips EXCEPT ![tts_i] = o.file]
         /\ IF o.file.kind = "clip"
            THEN /\ combined_audio' =
                      Concat(Concat(combined_audio,
                                    Silent(SilenceBefore(tts_in, tts_i))),
                             FromFile(o.file, tts_i, o.ret # None))
                 /\ segment_files' = Append(segment_files, tts_i)
                 /\ tts_i' = tts_i + 1
                 /\ UNCHANGED <<tts_pc, tts_ret>>
            ELSE /\ tts_pc' = "returned"
                 /\ tts_ret' = None
                 /\ segment_files' = <<>>
                 /\ UNCHANGED <<combined_audio, tts_i>>
    /\ UNCHANGED <<mainVars, trVars, tts_in, fs, touched>>
    /\ UNCHANGED syncVars

\* tts_generator.py:108-116  export the combined track and return, or
\* (None, None) when the export raises
SpeechExport ==
    /\ tts_pc = "loop" /\ tts_i > Len(tts_in)
    /\ \E ok \in BOOLEAN :
         /\ tts_ret' = IF ok THEN "speech.mp3" ELSE None
         /\ segment_files' = IF ok THEN segment_files ELSE <<>>
         /\ touched' = IF ok THEN touched \cup {"speech"} ELSE touched
    /\ tts_pc' = "returned"
    /\ UNCHANGED <<mainVars, trVars, tts_in, tts_i, combined_audio, fs, clips,
                   calls>>
    /\ UNCHANGED syncVars

\* main.py:109-113  the result of generate_speech_from_segments and its check
Step4Return ==
    /\ pc = "step4" /\ tts_pc = "returned"
    /\ speech_path' = tts_ret
    /\ IF Step4Failed(speech_path')
       THEN HandleException("Speech generation failed", touched)
       ELSE Proceed(4, "step5", touched)
    /\ tts_pc' = "done"
    /\ UNCHANGED <<runs, video_exists, audio_method, video_method,
                   audio_path, transcript_path, segments,
                   translation_path, translated_segments, output_video_path,
                   validation_path, metadata, trVars, tts_in, tts_i,
                   combined_audio, segment_files, tts_ret, clips, calls>>
    /\ UNCHANGED syncVars

\* ------------------------------------------------------ mux, validate, save
\* main.py:117-123 with video_aligner.py:13-147  align_audio_with_video
\* returns the path or None; the ffmpeg backend catches ffmpeg.Error only, so
\* any other exception of the tool reaches run_pipeline's except block
Step5 ==
    /\ pc = "step5"
    /\ calls' = Append(calls, Call("align_audio_with_video", 0))
    /\ \E o \in AlignOutcomes(video_method) :
         /\ output_video_path' = CASE o = "path" -> "output.mp4"
                                   [] o = "none" -> None
                                   [] o = "raise" -> output_video_path
         /\ LET t == IF o = "path" THEN touched \cup {"output_video"}
                     ELSE touched
            IN  IF o = "raise"
                THEN HandleException("align_audio_with_video raised", t)
                ELSE IF Step5Failed(output_video_path')
                     THEN HandleException("Audio-video alignment failed", t)
                     ELSE Proceed(5, "step6", t)
    /\ UNCHANGED <<runs, video_exists, audio_method, video_method,
                   audio_path, transcript_path, segments,
                   translation_path, translated_segments, speech_path,
                   validation_path, metadata, trVars, ttsVars, clips>>
    /\ UNCHANGED syncVars

\* main.py:127-129 with validator.py:102-199  validate_output returns the
\* report path or, on any exception, None; the temporary audio is written at
\* line 140 and removed at line 192 only
Step6 ==
    /\ pc = "step6"
    /\ calls' = Append(calls, Call("validate_output", 0))
    /\ \E o \in {"ok", "raise_before_temp", "raise_after_temp"} :
         /\ validation_path' = IF o = "ok" THEN "validation.json" ELSE None
         /\ fs' = CASE o = "ok" -> fs \ {TempAudio}
                    [] o = "raise_before_temp" -> fs
                    [] o = "raise_after_temp" -> fs \cup {TempAudio}
         /\ touched' = CASE o = "ok" -> touched \cup {"validation_report"}
                         [] o = "raise_before_temp" -> touched
                         [] o = "raise_after_temp" -> touched \cup {TempAudio}
    /\ output_paths' = IF ValidationRecorded(validation_path')
                       THEN output_paths \cup {"validation_report"}
                       ELSE output_paths
    /\ pc' = "save"
    /\ UNCHANGED <<runs, video_exists, audio_method, video_method,
                   audio_path, transcript_path, segments,
                   translation_path, translated_segments, speech_path,
                   output_video_path, ret, metadata, error_log,
                   trVars, ttsVars, clips>>
    /\ UNCHANGED syncVars

\* main.py:131-157  write the metadata file and return output_paths
SaveMetadata ==
    /\ pc = "save"
    /\ metadata' = [exists |-> TRUE, keys |-> output_paths]
    /\ output_paths' = output_paths \cup {"metadata"}
    /\ touched' = touched \cup {MetadataFile}
    /\ fs' = fs \cup {MetadataFile}
    /\ ret' = "output_paths"
    /\ pc' = "done"
    /\ UNCHANGED <<runs, video_exists, audio_method, video_method,
                   audio_path, transcript_path, segments,
                   translation_path, translated_segments, speech_path,
                   output_video_path, validation_path, error_log,
                   trVars, ttsVars, clips, calls>>
    /\ UNCHANGED syncVars

\* ------------------------------------------------------ measure_audio_sync
\* Times are whole seconds; a timing difference (start_diff + end_diff) / 2
\* is kept in half seconds, that is as start_diff + end_diff; the average
\* sum / len is kept as the fraction num / den of half seconds.
Abs(x) == IF x < 0 THEN 0 - x ELSE x

RECURSIVE SeqSum(_)
SeqSum(q) == IF q = <<>> THEN 0 ELSE Head(q) + SeqSum(Tail(q))

RECURSIVE SeqMax(_)
SeqMax(q) == IF Len(q) = 1 THEN q[1] ELSE Max(q[1], SeqMax(Tail(q)))

RECURSIVE SeqMin(_)
SeqMin(q) ==
    IF Len(q) = 1 THEN q[1]
    ELSE LET m == SeqMin(Tail(q)) IN IF q[1] < m THEN q[1] ELSE m

\* the timing lists handed to and found by measure_audio_sync
SyncSegLists ==
    SegLists({x \in [start : 0..SyncMaxTime, end : 0..SyncMaxTime] :
                 x.start <= x.end}, SyncMaxSegs)

NoResult == [pending |-> TRUE]

\* validator.py:77-79  the deviation of one pair, in half seconds
TimingDiffStartOnly(orig, dubbed) == 2 * Abs(orig.start - dubbed.start)
TimingDiff(orig, dubbed) ==
    Abs(orig.start - dubbed.start) + Abs(orig.end - dubbed.end)

\* validator.py:75  if i < len(dubbed_segments)
HasPartnerButLast(i, dubbed) == i < Len(dubbed)
HasPartner(i, dubbed) == i <= Len(dubbed)

\* validator.py:82-96  the metrics, or the error entry when no pair exists
SyncMetrics(diffs) ==
    IF diffs # <<>>
    THEN [average |-> [num |-> SeqSum(diffs), den |-> Len(diffs)],
          max |-> SeqMax(diffs), min |-> SeqMin(diffs),
          segments_compared |-> Len(diffs)]
    ELSE [error |-> "No segments could be compared"]

\* validator.py:57-70, 98-100  transcribe the dubbed audio, or return the
\* error entry when whisper raises
SyncTranscribe ==
    /\ sync_pc = "call"
    /\ \/ \E d \in SyncSegLists :
            /\ dubbed_segments' = d
            /\ sync_pc' = "loop" /\ sync_i' = 1 /\ timing_diffs' = <<>>
            /\ UNCHANGED sync_ret
       \/ /\ sync_ret' = [error |-> "transcribe raised"]
          /\ sync_pc' = "returned"
          /\ UNCHANGED <<dubbed_segments, sync_i, timing_diffs>>
    /\ UNCHANGED <<mainVars, trVars, ttsVars, diskVars, calls,
                   original_segments>>

\* validator.py:74-79  one iteration over original_segments
SyncCompare ==
    /\ sync_pc = "loop" /\ sync_i <= Len(original_segments)
    /\ timing_diffs' =
           IF HasPartner(sync_i, dubbed_segments)
           THEN Append(timing_diffs,
                       TimingDiff(original_segments[sync_i],
                                  dubbed_segments[sync_i]))
           ELSE timing_diffs
    /\ sync_i' = sync_i + 1
    /\ UNCHANGED <<mainVars, trVars, ttsVars, diskVars, calls, sync_pc,
                   original_segments, dubbed_segments, sync_ret>>

\* validator.py:82-96  return
SyncReturn ==
    /\ sync_pc = "loop" /\ sync_i > Len(original_segments)
    /\ sync_ret' = SyncMetrics(timing_diffs)
    /\ sync_pc' = "returned"
    /\ UNCHANGED <<mainVars, trVars, ttsVars, diskVars, calls, sync_i,
                   original_segments, dubbed_segments, timing_diffs>>

\* ---------------------------------------------------------- specifications
\* an empty output directory, no run started
Init ==
    /\ runs = 0 /\ pc = "idle" /\ video_exists = FALSE
    /\ audio_method = "ffmpeg" /\ video_method = "ffmpeg"
    /\ output_paths = {} /\ calls = <<>>
    /\ audio_path = Unset /\ transcript_path = Unset /\ segments = <<>>
    /\ translation_path = Unset /\ translated_segments = <<>>
    /\ speech_path = Unset /\ output_video_path = Unset
    /\ validation_path = Unset /\ ret = Unset
    /\ tr_pc = "idle" /\ tr_i = 0 /\ tr_out = <<>> /\ tr_ret = Unset
    /\ tts_pc = "idle" /\ tts_in = <<>> /\ tts_i = 0 /\ combined_audio = <<>>
    /\ segment_files = <<>> /\ tts_ret = Unset
    /\ fs = {} /\ touched = {}
    /\ clips = [i \in 1..SegSlots |-> NoFile]
    /\ metadata = NoManifest /\ error_log = NoRecord
    /\ sync_pc = "idle" /\ original_segments = <<>> /\ dubbed_segments = <<>>
    /\ sync_i = 0 /\ timing_diffs = <<>> /\ sync_ret = NoResult

Next ==
    \/ RunPipeline
    \/ Step1
    \/ Step2
    \/ Step3Call
    \/ TranslateSegment
    \/ TranslateSave
    \/ Step3Return
    \/ Step4Call
    \/ SpeechSegment
    \/ SpeechExport
    \/ Step4Return
    \/ Step5
    \/ Step6
    \/ SaveMetadata

Spec == Init /\ [][Next]_vars

\* the steps of a run that has started; each is a call that returns or
\* raises, or code of run_pipeline between two calls
RunStep ==
    \/ Step1 \/ Step2
    \/ Step3Call \/ TranslateSegment \/ TranslateSave \/ Step3Return
    \/ Step4Call \/ SpeechSegment \/ SpeechExport \/ Step4Return
    \/ Step5 \/ Step6 \/ SaveMetadata

\* the pipeline when every call of a started run returns or raises; whether
\* run_pipeline is invoked again is left open
SpecLive == Init /\ [][Next]_vars /\ WF_vars(RunStep)

\* tts_generator.py:118-144  generate_speech_from_file: the assembler called
\* on its own with the segments of a translation file; the segments
\* directory is empty or holds clips of an earlier call
AsmInitClips ==
    {[i \in 1..SegSlots |-> NoFile], [i \in 1..SegSlots |-> ClipFile(1000)]}

InitAsm ==
    /\ runs = 1 /\ pc = "idle" /\ video_exists = FALSE
    /\ audio_method = "ffmpeg" /\ video_method = "ffmpeg"
    /\ output_paths = {} /\ calls = <<>>
    /\ audio_path = Unset /\ transcript_path = Unset /\ segments = <<>>
    /\ translation_path = Unset /\ translated_segments = <<>>
    /\ speech_path = Unset /\ output_video_path = Unset
    /\ validation_path = Unset /\ ret = Unset
    /\ tr_pc = "idle" /\ tr_i = 0 /\ tr_out = <<>> /\ tr_ret = Unset
    /\ tts_pc = "loop" /\ tts_in \in AsmSegLists /\ tts_i = 1
    /\ combined_audio = <<>> /\ segment_files = <<>> /\ tts_ret = Unset
    /\ fs = {"dir:speech", "dir:segments"} /\ touched = {}
    /\ clips \in AsmInitClips
    /\ metadata = NoManifest /\ error_log = NoRecord
    /\ sync_pc = "idle" /\ original_segments = <<>> /\ dubbed_segments = <<>>
    /\ sync_i = 0 /\ timing_diffs = <<>> /\ sync_ret = NoResult

NextAsm ==
    \/ SpeechSegment
    \/ SpeechExport

SpecAsm == InitAsm /\ [][NextAsm]_vars

\* validator.py:45-100  measure_audio_sync called with any list of original
\* segments
InitSync ==
    /\ runs = 0 /\ pc = "idle" /\ video_exists = FALSE
    /\ audio_method = "ffmpeg" /\ video_method = "ffmpeg"
    /\ output_paths = {} /\ calls = <<>>
    /\ audio_path = Unset /\ transcript_path = Unset /\ segments = <<>>
    /\ translation_path = Unset /\ translated_segments = <<>>
    /\ speech_path = Unset /\ output_video_path = Unset
    /\ validation_path = Unset /\ ret = Unset
    /\ tr_pc = "idle" /\ tr_i = 0 /\ tr_out = <<>> /\ tr_ret = Unset
    /\ tts_pc = "idle" /\ tts_in = <<>> /\ tts_i = 0 /\ combined_audio = <<>>
    /\ segment_files = <<>> /\ tts_ret = Unset
    /\ fs = StageDirs /\ touched = {}
    /\ clips = [i \in 1..SegSlots |-> NoFile]
    /\ metadata = NoManifest /\ error_log = NoRecord
    /\ sync_pc = "call" /\ original_segments \in SyncSegLists
    /\ dubbed_segments = <<>> /\ sync_i = 0 /\ timing_diffs = <<>>
    /\ sync_ret = NoResult

NextSync ==
    \/ SyncTranscribe
    \/ SyncCompare
    \/ SyncReturn

SpecSync == InitSync /\ [][NextSync]_vars

\* ------------------------------------------------------------- properties
TypeOK ==
    /\ runs \in 0..MaxRuns
    /\ pc \in {"idle", "step1", "step2", "step3", "step4", "step5", "step6",
               "save"} \cup TerminalPcs
    /\ video_exists \in BOOLEAN
    /\ audio_method \in Methods /\ video_method \in Methods
    /\ ret \in {Unset, None, "output_paths"}
    /\ tr_pc \in {"idle", "loop", "returned", "done"}
    /\ tts_pc \in {"idle", "loop", "returned", "done"}
    /\ Len(tr_out) <= Len(segments)
    /\ \A i \in 1..SegSlots : clips[i].kind \in {"none", "clip"}
    /\ fs \subseteq StageDirs \cup {"dir:segments", MetadataFile, ErrorLogFile,
                                    TempAudio}

\* the stage an adapter call belongs to
StageOf(op) ==
    CASE op = "extract_audio" -> 1
      [] op = "transcribe_audio" -> 2
      [] op \in {"translate_segments", "translate_text"} -> 3
      [] op \in {"generate_speech_from_segments", "generate_speech"} -> 4
      [] op = "align_audio_with_video" -> 5
      [] op = "validate_output" -> 6

NoCallAfterStage(k) == \A i \in 1..Len(calls) : StageOf(calls[i].op) <= k

\* the result stage k handed back to run_pipeline is empty or a failure
ResultFailed(k) ==
    CASE k = 1 -> audio_path = None
      [] k = 2 -> transcript_path = None
                  \/ (transcript_path # Unset /\ segments = <<>>)
      [] k = 3 -> tr_pc \in {"returned", "done"}
                  /\ (tr_ret = None \/ tr_out = <<>>)
      [] k = 4 -> tts_pc \in {"returned", "done"} /\ tts_ret = None
      [] k = 5 -> output_video_path = None

\* run_pipeline has looked at the result of stage k
ResultSeen(k) ==
    CASE k = 3 -> tr_pc = "done"
      [] k = 4 -> tts_pc = "done"
      [] OTHER -> TRUE

ErrorRecordWritten ==
    ErrorLogFile \in touched /\ ErrorLogFile \in fs /\ error_log.exists
ManifestWritten ==
    MetadataFile \in touched /\ MetadataFile \in fs /\ metadata.exists

\* C1: every invocation of run_pipeline that has returned wrote exactly one
\* of the manifest and the error record (stated as claimed; the code writes
\* neither when the input video does not exist)
C1_ExactlyOneRecordPerRun ==
    pc \in TerminalPcs =>
        ((MetadataFile \in touched) # (ErrorLogFile \in touched))

\* C2: after any sequence of completed runs on one output directory and one
\* video name, exactly one of the manifest file and the error record file
\* exists (stated as claimed; the code never removes the other file)
C2_ExactlyOneRecordInDirectory ==
    pc \in {"done", "failed"} => ((MetadataFile \in fs) # (ErrorLogFile \in fs))

\* C3: when translate_segments fails, the run writes an error record whose
\* completed_steps hold the populated extracted_audio and transcript paths
\* and no translation key, and no adapter of stages 4-6 is invoked
C3_TranslateFailure ==
    (tr_pc \in {"returned", "done"} /\ tr_ret = None) =>
        /\ NoCallAfterStage(3)
        /\ tr_pc = "done" =>
             /\ pc = "failed"
             /\ ErrorRecordWritten
             /\ {"extracted_audio", "transcript"} \subseteq error_log.keys
             /\ audio_path \notin {Unset, None}
             /\ transcript_path \notin {Unset, None}
             /\ "translation" \notin error_log.keys
C3_Witness ==
    /\ pc = "failed" /\ tr_pc = "done" /\ tr_ret = None
    /\ Len(segments) = 2 /\ error_log.error = "Translation failed"

\* C4: when stages 1-5 succeeded and validate_output returned no report, the
\* run ends Done: the manifest is written without a validation_report key,
\* run_pipeline returns output_paths and no error record is written
C4_ValidationAdvisory ==
    validation_path = None =>
        /\ pc \in {"save", "done"}
        /\ ErrorLogFile \notin touched /\ ~error_log.exists
        /\ "validation_report" \notin output_paths
        /\ pc = "done" =>
             /\ ManifestWritten
             /\ "validation_report" \notin metadata.keys
             /\ "output_video" \in metadata.keys
             /\ ret = "output_paths"
C4_Witness ==
    pc = "done" /\ validation_path = None /\ TempAudio \in touched

\* C5: when the result of one of stages 1-5 is empty or a failure (a
\* transcription without segments included) the run is Failed at that point:
\* no adapter of a later stage is invoked and an error record is written
C5_FailureIsTerminal ==
    \A k \in 1..5 :
        ResultFailed(k) =>
            /\ NoCallAfterStage(k)
            /\ ResultSeen(k) => (pc = "failed" /\ ErrorRecordWritten
                                 /\ ret = None)
C5_Witness ==
    /\ pc = "failed" /\ transcript_path = "transcript.txt" /\ segments = <<>>
    /\ calls = <<Call("extract_audio", 0), Call("transcribe_audio", 0)>>

\* the adapters run_pipeline calls, in the order of the state machine
StageOrder == <<"extract_audio", "transcribe_audio", "translate_segments",
                "generate_speech_from_segments", "align_audio_with_video",
                "validate_output">>

\* the segment indices handed to the per-segment adapter op, in call order
SegmentCalls(op) == SelectSeq(calls, LAMBDA c : c.op = op)

Ascending(cs) == \A i \in 1..Len(cs) : cs[i].seg = i

\* C6: the adapters are invoked in the fixed order extract, transcribe,
\* translate, synthesize, mux, validate, each at most once and stage k+1 only
\* after stage k returned a non-empty result; inside translate and inside
\* synthesize the segments are processed one by one in ascending index
\* order, each exactly once when the stage completes
C6_FixedOrder ==
    LET stageCalls == SelectSeq(calls, LAMBDA c : c.seg = 0)
        invoked(k) == \E i \in 1..Len(calls) : StageOf(calls[i].op) = k
        tt == SegmentCalls("translate_text")
        gs == SegmentCalls("generate_speech")
    IN  /\ Len(stageCalls) <= 6
        /\ \A i \in 1..Len(stageCalls) : stageCalls[i].op = StageOrder[i]
        /\ \A i \in 1..Len(calls), j \in 1..Len(calls) :
               i < j => StageOf(calls[i].op) <= StageOf(calls[j].op)
        /\ invoked(2) => audio_path = "audio.wav"
        /\ invoked(3) => transcript_path = "transcript.txt" /\ segments # <<>>
        /\ invoked(4) => /\ translation_path = "translated.json"
                         /\ translated_segments # <<>>
        /\ invoked(5) => speech_path = "speech.mp3"
        /\ invoked(6) => output_video_path = "output.mp4"
        /\ Ascending(tt) /\ Len(tt) <= Len(segments)
        /\ tr_pc \in {"returned", "done"} => Len(tt) = Len(segments)
        /\ Ascending(gs) /\ Len(gs) <= Len(tts_in)
        /\ (tts_pc \in {"returned", "done"} /\ tts_ret # None) =>
               Len(gs) = Len(tts_in)
C6_Witness ==
    /\ pc = "done" /\ Len(segments) = 2 /\ Len(calls) = 10
    /\ calls[10].op = "validate_output"

StageNames == <<"extract", "transcribe", "translate", "synthesize", "mux",
                "validate">>

\* the stage that failed in a failed run: the one whose adapter was the last
\* to be invoked
FailedStageName == StageNames[StageOf(calls[Len(calls)].op)]

\* C7: the error record of a run that failed in one of stages 1-5 names
\* that stage in its stage field (stated as claimed; the code always writes
\* "unknown")
C7_StageIdentified ==
    pc = "failed" =>
        (error_log.stage = FailedStageName /\ error_log.stage # "unknown")

\* the artifact keys in stage order
KeyOrder == <<{"extracted_audio"}, {"transcript"}, {"translation"},
              {"indonesian_speech", "speech_segments"}, {"output_video"}>>

ArtifactKeys(keys) == keys \cap UNION {KeyOrder[k] : k \in 1..5}

KeyPrefix(n) == UNION {KeyOrder[k] : k \in 1..n}

\* stage k returned a non-empty result to run_pipeline
Completed(k) ==
    CASE k = 1 -> audio_path \notin {Unset, None}
      [] k = 2 -> transcript_path \notin {Unset, None} /\ segments # <<>>
      [] k = 3 -> translation_path \notin {Unset, None}
                  /\ translated_segments # <<>>
      [] k = 4 -> speech_path \notin {Unset, None}
      [] k = 5 -> output_video_path \notin {Unset, None}

\* C8: in every state the artifact keys recorded in output_paths are those
\* of the completed stages and form a prefix of extracted_audio, transcript,
\* translation, indonesian_speech (+ speech_segments), output_video; the
\* error record of a failed run holds exactly these keys
C8_CompletedStepsPrefix ==
    LET done == {k \in 1..5 : Completed(k)}
    IN  /\ ArtifactKeys(output_paths) = UNION {KeyOrder[k] : k \in done}
        /\ \E n \in 0..5 : ArtifactKeys(output_paths) = KeyPrefix(n)
        /\ pc = "failed" =>
             /\ ErrorRecordWritten
             /\ ArtifactKeys(error_log.keys) = UNION {KeyOrder[k] : k \in done}
             /\ \E n \in 0..4 : ArtifactKeys(error_log.keys) = KeyPrefix(n)
C8_Witness ==
    /\ pc = "failed" /\ output_video_path = None
    /\ ArtifactKeys(error_log.keys) = KeyPrefix(4)

\* C9: a run whose input video does not exist ends at once: no adapter is
\* invoked, no directory or artifact is created, nothing is returned
C9_MissingInput ==
    (runs > 0 /\ ~video_exists) =>
        /\ pc = "rejected"
        /\ calls = <<>>
        /\ touched = {}
        /\ ret = None
C9_Witness ==
    pc = "rejected" /\ ~video_exists /\ runs = 2 /\ ErrorLogFile \in fs

\* the silence the assembly rule puts before segment i, in seconds
DeclaredGap(segs, i) ==
    IF i = 1
    THEN (IF segs[1].start > 0 THEN segs[1].start ELSE 0)
    ELSE (IF segs[i].start > segs[i - 1].end
          THEN segs[i].start - segs[i - 1].end ELSE 0)

\* the track the assembly rule yields for the first k segments: for each, the
\* silence of its declared gap (when positive), then its clip file in full
RECURSIVE RuleTrack(_, _, _)
RuleTrack(segs, files, k) ==
    IF k = 0 THEN <<>>
    ELSE RuleTrack(segs, files, k - 1)
         \o (IF DeclaredGap(segs, k) > 0
             THEN <<[kind |-> "silence", seg |-> 0,
                     dur |-> DeclaredGap(segs, k) * 1000]>>
             ELSE <<>>)
         \o <<[kind |-> "clip", seg |-> k, dur |-> files[k].dur]>>

RECURSIVE RuleLength(_, _, _)
RuleLength(segs, files, k) ==
    IF k = 0 THEN 0
    ELSE RuleLength(segs, files, k - 1)
         + DeclaredGap(segs, k) * 1000 + files[k].dur

\* what a track sounds like: its pieces without their provenance
Audio(t) ==
    [j \in 1..Len(t) |-> [kind |-> t[j].kind, seg |-> t[j].seg, dur |-> t[j].dur]]

ClipsAppended ==
    Cardinality({j \in 1..Len(combined_audio) : combined_audio[j].kind = "clip"})

\* C10: generate_speech_from_segments builds the track from the empty track:
\* silence of start_0 before clip 0 when start_0 > 0, silence of
\* max(0, start_i - end_(i-1)) before clip i > 0, each clip in full and in
\* input order; the track's length is the sum of these silences and clips,
\* and a returned track holds every segment's clip
C10_AssemblyRule ==
    tts_pc \in {"loop", "returned", "done"} =>
        /\ Audio(combined_audio) = RuleTrack(tts_in, clips, ClipsAppended)
        /\ TrackLen(combined_audio) = RuleLength(tts_in, clips, ClipsAppended)
        /\ tts_pc = "loop" => ClipsAppended = tts_i - 1
        /\ (tts_pc # "loop" /\ tts_ret # None) => ClipsAppended = Len(tts_in)
C10_Witness ==
    /\ tts_pc = "returned" /\ tts_ret # None /\ Len(tts_in) = 3
    /\ tts_in[1].start > 0
    /\ tts_in[2].start < tts_in[1].end
    /\ tts_in[3].start > tts_in[2].end
    /\ combined_audio[2].kind = "clip"
    /\ combined_audio[2].dur > (tts_in[1].end - tts_in[1].start) * 1000

\* ------------------------------------------------ timing of the built track
NonOverlapping(segs) ==
    \A i \in 2..Len(segs) : segs[i].start >= segs[i - 1].end

\* the target window of segment i, in ms
Window(segs, i) == (segs[i].end - segs[i].start) * 1000

\* the clips of track t from piece j on, in track order: for each the
\* segment it belongs to, its piece index, where it begins and how long it
\* lasts; offset is the length of the track before piece j
RECURSIVE PlacedFrom(_, _, _)
PlacedFrom(t, j, offset) ==
    IF j > Len(t) THEN <<>>
    ELSE (IF t[j].kind = "clip"
          THEN <<[seg |-> t[j].seg, at |-> j, start |-> offset,
                  len |-> t[j].dur]>>
          ELSE <<>>)
         \o PlacedFrom(t, j + 1, offset + t[j].dur)

Placed(t) == PlacedFrom(t, 1, 0)

\* the i-th clip is the clip of segment i
InInputOrder(p) == \A i \in 1..Len(p) : p[i].seg = i

\* by how much the i-th clip is longer than its segment's window (negative
\* when it is shorter)
OverRun(p, segs, i) == p[i].len - Window(segs, p[i].seg)

RECURSIVE SumOverRun(_, _, _)
SumOverRun(p, segs, k) ==
    IF k = 0 THEN 0 ELSE SumOverRun(p, segs, k - 1) + OverRun(p, segs, k)

\* how much later than its segment's declared start the i-th clip begins
Drift(p, segs, i) == p[i].start - segs[p[i].seg].start * 1000

\* the silence between the clips i-1 and i
GapInTrack(p, i) == p[i].start - p[i - 1].start - p[i - 1].len

\* every clip placed so far lasts exactly its window
ExactFit(p, segs) == \A i \in 1..Len(p) : OverRun(p, segs, i) = 0

\* the call returned the combined track
Assembled == tts_pc \in {"returned", "done"} /\ tts_ret # None

C12_DriftNeverReduced ==
    LET p == Placed(combined_audio)
        k == Len(p)
    IN  (/\ tts_pc \in {"loop", "returned", "done"}
         /\ \E i \in 1..k : OverRun(p, tts_in, i) > 0
         /\ \A i \in 1..k : OverRun(p, tts_in, i) >= 0) =>
            /\ InInputOrder(p)
            /\ Drift(p, tts_in, 1) = 0
            /\ \A i \in 2..k :
                 /\ GapInTrack(p, i) = DeclaredGap(tts_in, i) * 1000
                 /\ Drift(p, tts_in, i) >= Drift(p, tts_in, i - 1)
                 /\ Drift(p, tts_in, i) >=
                        Drift(p, tts_in, i - 1) + OverRun(p, tts_in, i - 1)
C12_Witness ==
    LET p == Placed(combined_audio)
    IN  /\ Assembled /\ Len(tts_in) = 3
        /\ \A i \in 1..3 : OverRun(p, tts_in, i) >= 0
        /\ tts_in[2].start < tts_in[1].end
        /\ Drift(p, tts_in, 2) > 0
        /\ Drift(p, tts_in, 3) > Drift(p, tts_in, 2)

\* C13: in an ascending, non-overlapping list where every clip lasts exactly
\* its window, every clip begins at its segment's declared start, touching
\* segments have no silence between their clips, and the assembled track
\* lasts the last segment's end
C13_ExactFitNoDrift ==
    LET t == combined_audio
        p == Placed(t)
        k == Len(p)
    IN  (/\ tts_pc \in {"loop", "returned", "done"}
         /\ NonOverlapping(tts_in)
         /\ ExactFit(p, tts_in)) =>
            /\ InInputOrder(p)
            /\ \A i \in 1..k : Drift(p, tts_in, i) = 0
            /\ \A i \in 2..k :
                 tts_in[i].start = tts_in[i - 1].end =>
                     /\ GapInTrack(p, i) = 0
                     /\ p[i].at = p[i - 1].at + 1
            /\ k >= 1 => TrackLen(t) = tts_in[k].end * 1000
            /\ Assembled => (/\ k = Len(tts_in)
                             /\ TrackLen(t) = tts_in[Len(tts_in)].end * 1000)
C13_Witness ==
    LET p == Placed(combined_audio)
    IN  /\ Assembled /\ Len(tts_in) = 2 /\ NonOverlapping(tts_in)
        /\ ExactFit(p, tts_in)
        /\ tts_in[1].start = 0 /\ tts_in[2].start = tts_in[1].end
        /\ Len(combined_audio) = 2
        /\ TrackLen(combined_audio) = tts_in[2].end * 1000

\* a generate_speech call of this invocation returned None: its stale file
\* was appended all the same, or the missing file ended the loop
SynthesisFailed ==
    \/ \E j \in 1..Len(combined_audio) :
           combined_audio[j].kind = "clip" /\ ~combined_audio[j].fresh
    \/ (tts_pc \in {"returned", "done"} /\ tts_ret = None
        /\ tts_i <= Len(tts_in))

\* C14: when generate_speech fails for a segment,
\* generate_speech_from_segments aborts: it goes on with no later segment,
\* returns (None, None) and exports no combined track (stated as claimed; the
\* code does not look at the result of generate_speech and appends whatever
\* file is at the segment's path)
C14_MissingClipAborts ==
    SynthesisFailed =>
        /\ tts_pc \in {"returned", "done"}
        /\ tts_ret = None
        /\ "speech" \notin touched

\* list out has the length and the order of list src, segment by segment
\* with the same start and end and with the source text as original
SameTiming(src, out) ==
    /\ Len(out) = Len(src)
    /\ \A i \in 1..Len(src) :
         /\ out[i].start = src[i].start
         /\ out[i].end = src[i].end
         /\ out[i].original = src[i].text

\* C15: the list translate_segments returns has the length and order of its
\* input, each segment with its source's start, end and text; the list the
\* run hands on and the list the assembly receives are that list: nothing is
\* re-sorted, merged, dropped or de-duplicated on the way
C15_TimingInherited ==
    /\ tr_pc = "loop" => SameTiming(SubSeq(segments, 1, tr_i - 1), tr_out)
    /\ (tr_pc \in {"returned", "done"} /\ tr_ret # None) =>
           SameTiming(segments, tr_out)
    /\ "translation" \in output_paths =>
           SameTiming(segments, translated_segments)
    /\ tts_pc # "idle" =>
           (SameTiming(segments, tts_in) /\ tts_in = tr_out)
C15_Witness ==
    /\ tts_pc = "loop" /\ tts_i = 2 /\ Len(segments) = 2
    /\ tts_in[2].start = 1 /\ tts_in[2].end = 2
    /\ tts_in[1].original = "zh_a" /\ tts_in[2].original = "zh_b"

\* C16: run_pipeline returns a result other than None exactly when stages
\* 1-5 all succeeded and the manifest was written; such a result is
\* output_paths holding output_video and metadata; a failed run returns None,
\* and nothing is returned before the run has ended
C16_ReturnValue ==
    /\ pc \in TerminalPcs =>
         /\ ret \in {None, "output_paths"}
         /\ ret # None <=> ((\A k \in 1..5 : Completed(k)) /\ ManifestWritten)
         /\ ret # None => {"output_video", "metadata"} \subseteq output_paths
         /\ pc = "failed" => ret = None
    /\ pc \notin TerminalPcs \cup {"idle"} => ret = Unset
C16_Witness ==
    /\ pc = "done" /\ ret = "output_paths" /\ runs = 2
    /\ ErrorLogFile \in fs /\ validation_path = "validation.json"
    /\ {"output_video", "metadata", "validation_report"} \subseteq output_paths

C18_NoMissingTranslationAccepted ==
    "translation" \in output_paths =>
        \A i \in 1..Len(translated_segments) :
            translated_segments[i].translated # None

\* C19: the clip appended to the combined track for a segment is the one
\* generate_speech wrote in this run for that segment, never a file left at
\* the segment's path by an earlier run (stated as claimed; the code loads
\* whatever file is at the path after a failed generate_speech)
C19_NoStaleClip ==
    \A j \in 1..Len(combined_audio) :
        combined_audio[j].kind = "clip" => combined_audio[j].fresh

RunningPcs == {"step1", "step2", "step3", "step4", "step5", "step6", "save"}

\* the position of run_pipeline in its one pass over the stages
Rank(p) ==
    CASE p = "idle" -> 0
      [] p = "step1" -> 1 [] p = "step2" -> 2 [] p = "step3" -> 3
      [] p = "step4" -> 4 [] p = "step5" -> 5 [] p = "step6" -> 6
      [] p = "save" -> 7
      [] OTHER -> 8

\* a run that has ended is Done or Failed, with the record of that outcome
\* only
TerminalOutcome ==
    /\ pc = "done" => (ManifestWritten /\ ret = "output_paths"
                       /\ ErrorLogFile \notin touched)
    /\ pc = "failed" => (ErrorRecordWritten /\ ret = None
                         /\ MetadataFile \notin touched)
    /\ Len(SegmentCalls("translate_text")) <= Len(segments)
    /\ Len(SegmentCalls("generate_speech")) <= Len(tts_in)
    /\ Len(calls) <= 6 + 2 * Len(segments)

\* a step inside a run never goes back: not to an earlier stage, not to an
\* earlier segment
OnePass ==
    runs' = runs =>
        /\ Rank(pc') >= Rank(pc)
        /\ tr_i' >= tr_i /\ tts_i' >= tts_i
        /\ Len(calls') \in {Len(calls), Len(calls) + 1}
        /\ pc \in {"done", "failed"} => pc' = pc

\* C20: when every adapter call returns or raises, a run that passed the
\* input check ends Done (manifest written, paths returned) or Failed (error
\* record written, None returned), after one pass over the stages with at
\* most one translate call and one synthesize call per segment and without
\* ever going back to an earlier stage
C20_RunTerminates ==
    /\ []TerminalOutcome
    /\ [][OnePass]_vars
    /\ (pc \in RunningPcs) ~> (pc \in {"done", "failed"})
C20_Witness ==
    /\ pc = "failed" /\ runs = 2 /\ Len(segments) = 2 /\ Len(calls) = 9
    /\ calls[9].op = "align_audio_with_video"
    /\ output_video_path = None

\* C21: a backend name is checked by the stage that uses it only.  A run
\* with an unrecognized audio_method fails at stage 1: extract_audio is the
\* only adapter invoked and the error record holds no stage artifact key.  A
\* run with a recognized audio_method and an unrecognized video_method is
\* not stopped by the name before stage 5: stages 1-4 run as for any other
\* name, and once align_audio_with_video is invoked the run fails there, with
\* an error record holding extracted_audio, transcript, translation and
\* indonesian_speech but no output_video
C21_BackendCheckedAtUse ==
    /\ (audio_method = "other" /\ pc \in RunningPcs \cup {"done", "failed"}) =>
           /\ pc \in {"step1", "failed"}
           /\ NoCallAfterStage(1)
           /\ pc = "failed" =>
                /\ calls = <<Call("extract_audio", 0)>>
                /\ audio_path = None
                /\ ErrorRecordWritten
                /\ ArtifactKeys(error_log.keys) = {}
    /\ (audio_method # "other" /\ video_method = "other"
        /\ pc \in RunningPcs \cup {"done", "failed"}) =>
           /\ pc \in {"step1", "step2", "step3", "step4", "step5", "failed"}
           /\ NoCallAfterStage(5)
           /\ (\E i \in 1..Len(calls) :
                   calls[i].op = "align_audio_with_video") =>
                /\ pc = "failed"
                /\ output_video_path = None
                /\ \A k \in 1..4 : Completed(k)
                /\ ErrorRecordWritten
                /\ ArtifactKeys(error_log.keys) = KeyPrefix(4)
                /\ {"extracted_audio", "transcript", "translation",
                    "indonesian_speech"} \subseteq error_log.keys
                /\ "output_video" \notin error_log.keys
C21_Witness ==
    /\ pc = "failed" /\ audio_method = "ffmpeg" /\ video_method = "other"
    /\ Len(segments) = 2
    /\ calls[Len(calls)].op = "align_audio_with_video"
    /\ error_log.error = "Audio-video alignment failed"
    /\ runs = 2

\* C22: validate_output leaves no temp_dubbed_audio.wav in the validation
\* directory once it has returned, with a report path or with None; as the
\* call is one step here, the file exists in no state (stated as claimed;
\* the code removes the file on the path that returns the report only)
C22_NoTempFileLeft ==
    TempAudio \notin fs

====
